---- MODULE Spec2Model ----
(***************************************************************************)
(* soccerstan.py: reading a football-data table, encoding team names,     *)
(* building (and caching) the compiled Stan model, sampling, relabelling   *)
(* the team parameters and plotting.                                       *)
(***************************************************************************)
EXTENDS Integers, Sequences, FiniteSets, TLC

\* ------------------------------------------------------------------ bounds
MaxLen == 4          \* longest label vector handed to stan_map on its own
MaxRows == 2         \* longest raw table handed to read_data on its own
MaxCalls == 3        \* invocations of the script per process

\* ------------------------------------------------------------ team labels
\* A team name is a string; it is modelled as the sequence of its character
\* codes so that sorting compares text: <<1>> is "A", <<1,2>> is "AB", <<2>> is "B".
Labels == {<<1>>, <<1, 2>>, <<2>>}

Range(s) == {s[i] : i \in 1..Len(s)}

RECURSIVE SeqsUpTo(_, _)
SeqsUpTo(S, n) ==
    IF n = 0 THEN {<<>>}
    ELSE LET shorter == SeqsUpTo(S, n - 1)
         IN  shorter \cup {Append(s, x) : s \in {t \in shorter : Len(t) = n - 1}, x \in S}

\* The order np.unique sorts strings by: lexicographic on the characters.
RECURSIVE LexLess(_, _)
LexLess(a, b) ==
    IF a = <<>> THEN b # <<>>
    ELSE IF b = <<>> THEN FALSE
    ELSE IF Head(a) # Head(b) THEN Head(a) < Head(b)
    ELSE LexLess(Tail(a), Tail(b))

RECURSIVE InsertSorted(_, _)
InsertSorted(x, s) ==
    IF s = <<>> THEN <<x>>
    ELSE IF LexLess(Head(s), x) THEN <<Head(s)>> \o InsertSorted(x, Tail(s))
    ELSE <<x>> \o s

RECURSIVE SortLabels(_)
SortLabels(v) == IF v = <<>> THEN <<>> ELSE InsertSorted(Head(v), SortLabels(Tail(v)))

RECURSIVE DropRepeats(_)
DropRepeats(s) ==
    IF Len(s) < 2 THEN s
    ELSE IF s[1] = s[2] THEN DropRepeats(Tail(s))
    ELSE <<s[1]>> \o DropRepeats(Tail(s))

\* np.unique: the sorted distinct items of the vector.
np_unique(vector_) == DropRepeats(SortLabels(vector_))

RECURSIVE FirstSeen(_)
FirstSeen(v) ==
    IF v = <<>> THEN <<>>
    ELSE LET front == FirstSeen(SubSeq(v, 1, Len(v) - 1))
             last == v[Len(v)]
         IN  IF last \in Range(front) THEN front ELSE Append(front, last)

\* The dict comprehension over enumerate(items, start): a later pair with the
\* same key overwrites an earlier one.
EnumerateDict(items, start) ==
    [item \in Range(items) |->
        LET i == CHOOSE i \in 1..Len(items) :
                    /\ items[i] = item
                    /\ \A j \in (i + 1)..Len(items) : items[j] # item
        IN  start + i - 1]

\* Mutant of stan_map: the distinct items in order of first appearance
\* (pd.unique instead of np.unique).
stan_map_first_seen(vector_) == EnumerateDict(FirstSeen(vector_), 1)

stan_map(vector_) == EnumerateDict(np_unique(vector_), 1)

\* ------------------------------------------------------------- raw tables
\* A goal cell of the csv: a number, the missing value (NaN), or text that is
\* no number.
Num(n) == [t |-> "num", v |-> n]
NaN == [t |-> "nan", v |-> 0]
Junk == [t |-> "text", v |-> 0]

isnull(c) == c.t = "nan"

\* int(c): defined on numbers only; NaN and text raise ValueError.
CanInt(c) == c.t = "num"
to_int(c) == c.v

HomeCells == {Num(2), NaN, Junk}
AwayCells == {Num(1), NaN}
Rows == [home_team : Labels, away_team : Labels, home_goals : HomeCells, away_goals : AwayCells]
Tables == SeqsUpTo(Rows, MaxRows)

EmptyMap == [x \in {} |-> 0]

\* Mutant of RemoveFutureGames: the filter looks at the away goals.
RemoveFutureGames_away(df) == SelectSeq(df, LAMBDA r : ~isnull(r.away_goals))

\* .loc[lambda df: ~pd.isnull(df['home_goals'])]
RemoveFutureGames(df) == SelectSeq(df, LAMBDA r : ~isnull(r.home_goals))

\* pd.concat([df['home_team'], df['away_team']])
TeamColumns(df) ==
    [i \in 1..Len(df) |-> df[i].home_team] \o [i \in 1..Len(df) |-> df[i].away_team]

\* Mutant of TeamMapInput: the labels are taken from every row of the file.
TeamMapInput_all_rows(raw_, data_) == TeamColumns(raw_)

\* The vector stan_map is called on: the team columns of the filtered frame.
TeamMapInput(raw_, data_) == TeamColumns(data_)

\* Series.replace(team_map) on one value: a value that is a key becomes its
\* id, any other value is left as it is.
Replace(x, map_) ==
    IF x \in DOMAIN map_ THEN [t |-> "id", v |-> map_[x]] ELSE [t |-> "label", v |-> x]

\* read_data: the frame and the map it returns, or the exception it raises.
read_data(fname) ==
    LET filtered == RemoveFutureGames(fname)
        map_ == stan_map(TeamMapInput(fname, filtered))
        coercible == \A i \in 1..Len(filtered) :
                        CanInt(filtered[i].home_goals) /\ CanInt(filtered[i].away_goals)
    IN  IF ~coercible
        THEN [raised |-> "ValueError", data |-> <<>>, team_map |-> EmptyMap]
        ELSE [raised |-> "none",
              data |-> [i \in 1..Len(filtered) |->
                          [home_team |-> filtered[i].home_team,
                           away_team |-> filtered[i].away_team,
                           home_goals |-> to_int(filtered[i].home_goals),
                           away_goals |-> to_int(filtered[i].away_goals),
                           home_team_id |-> Replace(filtered[i].home_team, map_),
                           away_team_id |-> Replace(filtered[i].away_team, map_)]],
              team_map |-> map_]

\* ------------------------------------------------------------ the models
\* models.model_map: the models the script can be asked for, by name, with the
\* parameters each declares.
ModelNames == {"maher", "dixon"}
AllParams == {"attack", "defence", "home_advantage"}
team_parameters(name) == IF name = "maher" THEN {"attack", "defence"} ELSE {"attack"}
parameters(name) == {"home_advantage"}

\* The text of a model file when the script reads it: two programs that
\* compile and one that does not.
Templates == {"T1", "T2", "Tbad"}
Models == [name : ModelNames, modelfile : Templates]

\* ------------------------------------------------------- compiled models
NoFile == [st |-> "absent", code |-> "", n_teams |-> 0]
Unreadable == [st |-> "corrupt", code |-> "", n_teams |-> 0]
NoModel == [st |-> "none", code |-> "", n_teams |-> 0]
Compiled(code, n) == [st |-> "ok", code |-> code, n_teams |-> n]

\* model_data, as far as the later steps look at it.
ModelData(data_, team_map_) ==
    [n_teams |-> Cardinality(DOMAIN team_map_),
     n_games |-> Len(data_),
     home_team |-> [i \in 1..Len(data_) |-> data_[i].home_team_id.v],
     away_team |-> [i \in 1..Len(data_) |-> data_[i].away_team_id.v],
     home_goals |-> [i \in 1..Len(data_) |-> data_[i].home_goals],
     away_goals |-> [i \in 1..Len(data_) |-> data_[i].away_goals]]

\* stan.build(program_code, data): the compiled model, or a compile error.
stan_build(program_code, model_data) ==
    IF program_code = "Tbad"
    THEN [raised |-> "CompileError", stan_model |-> NoModel]
    ELSE [raised |-> "none", stan_model |-> Compiled(program_code, model_data.n_teams)]

\* Mutant of cache_file: the location also depends on the program text.
cache_file_by_content(model_) == <<model_.name, model_.modelfile>>

\* '../cache/{0}.pkl'.format(model.name)
cache_file(model_) == model_.name

Paths == {cache_file(m) : m \in Models}

\* joblib.load(cache_file): what it raises, or "ok".
LoadOutcome(file) ==
    IF file.st = "absent" THEN "FileNotFoundError"
    ELSE IF file.st = "corrupt" THEN "EOFError"
    ELSE "ok"

\* Mutant of Catches: the handler is a bare `except Exception`.
Catches_everything(exc) == TRUE

\* except FileNotFoundError
Catches(exc) == exc = "FileNotFoundError"

\* --------------------------------------------------------- the posterior
NoOutput == [kind |-> "none", columns |-> <<>>, values |-> <<>>]

ParamNo(param) == IF param = "attack" THEN 1 ELSE IF param = "defence" THEN 2 ELSE 3

\* The number of columns of a team parameter's draws: one per team of the
\* model data (vector[n_teams] in the Stan programs).
SampleCols(model_data) == model_data.n_teams

\* fit.extract(): one array per declared parameter. A column of draws is
\* abstracted to one number that tells the parameter and the position.
Extract(name, model_data) ==
    [param \in AllParams |->
        IF param \in team_parameters(name)
        THEN [kind |-> "ndarray", columns |-> <<>>,
              values |-> [i \in 1..SampleCols(model_data) |-> 10 * ParamNo(param) + i]]
        ELSE IF param \in parameters(name)
        THEN [kind |-> "ndarray", columns |-> <<>>, values |-> <<10 * ParamNo(param)>>]
        ELSE NoOutput]

\* reverse_map = {v: k for k, v in team_map.items()}
reverse_map(team_map_) ==
    [v \in {team_map_[k] : k \in DOMAIN team_map_} |->
        CHOOSE k \in DOMAIN team_map_ : team_map_[k] = v]

\* Mutant of ColumnKey: the positional column is looked up as it is.
ColumnKey_no_offset(id_) == id_

\* reverse_map[id_ + 1]: the key a positional column is looked up by.
ColumnKey(id_) == id_ + 1

\* df = pd.DataFrame(array); df.columns = [reverse_map[id_ + 1] for id_ in df.columns]
Relabelled(array, rmap) ==
    [kind |-> "DataFrame",
     columns |-> [i \in 1..Len(array.values) |-> rmap[ColumnKey(i - 1)]],
     values |-> array.values]

\* The tidy-up loop over model.team_parameters, or the KeyError it raises.
TidyOutput(out, team_map_, team_params) ==
    LET rmap == reverse_map(team_map_)
        known == \A param \in team_params : \A i \in 1..Len(out[param].values) :
                     ColumnKey(i - 1) \in DOMAIN rmap
    IN  IF ~known
        THEN [raised |-> "KeyError", output |-> out]
        ELSE [raised |-> "none",
              output |-> [param \in AllParams |->
                            IF param \in team_params THEN Relabelled(out[param], rmap)
                            ELSE out[param]]]

\* --------------------------------------------------------------- state
Procs == {1, 2}
Rest == {"idle", "done", "failed"}
StageOrder == <<"normalize", "build", "sample", "reindex", "report">>

Row(h, a, hg, ag) == [home_team |-> h, away_team |-> a, home_goals |-> hg, away_goals |-> ag]
TableTwoTeams == <<Row(<<1>>, <<2>>, Num(2), Num(1)), Row(<<2>>, <<1>>, NaN, NaN)>>
TableThreeTeams == <<Row(<<2>>, <<1, 2>>, Num(2), Num(1)), Row(<<1>>, <<2>>, Num(2), Num(1))>>
TableBadScore == <<Row(<<1>>, <<2>>, Junk, Num(1))>>
PipelineTables == {TableTwoTeams, TableThreeTeams, TableBadScore}

VARIABLES
    vector,        \* the label vector given to stan_map on its own
    vector_map,    \* what stan_map returned for it
    mapped,        \* whether stan_map has been applied to `vector`
    pc,            \* per process: where the script is
    runs,          \* per process: invocations started
    raw,           \* per process: the rows of the data file
    model,         \* per process: the model's name and the text of its model file
    use_cache,     \* per process: args.cache
    data,          \* per process: the frame read_data returned
    team_map,      \* per process: the map read_data returned
    stan_model,    \* per process: the compiled model in hand
    last_load,     \* per process: how joblib.load ended in this invocation
    seen,          \* per process: what was stored under the name when load ran
    output,        \* per process: the sampler's output, tidied in place
    plotted,       \* per process: the parameters whose figure was saved
    err,           \* per process: the exception that ended the invocation
    stages,        \* per process: the stages completed in this invocation
    calls,         \* per process: compiles, stores and samples of this invocation
    cache,         \* the cache directory: path -> file
    stored,        \* per model name: the file last written under that name
    stats          \* per model name: what the use_cache branch has done so far

vars == <<vector, vector_map, mapped, pc, runs, raw, model, use_cache, data, team_map,
          stan_model, last_load, seen, output, plotted, err, stages, calls,
          cache, stored, stats>>

encoder_vars == <<vector, vector_map, mapped>>
shared_vars == <<cache, stored, stats>>

NoCalls == [compiles |-> 0, stores |-> 0, samples |-> 0]
NoStats == [compiles |-> 0, stores |-> 0, loads |-> 0, raised |-> 0]
NoOutputs == [param \in AllParams |-> NoOutput]

Bump(f, k, field) == [f EXCEPT ![k] = [@ EXCEPT ![field] = @ + 1]]

\* ------------------------------------------------------------- actions
Fail(p, exc) ==
    /\ pc' = [pc EXCEPT ![p] = "failed"]
    /\ err' = [err EXCEPT ![p] = exc]

StageDone(p, stage) == stages' = [stages EXCEPT ![p] = Append(@, stage)]

\* __main__: the script is started on a data file, a model name and the
\* cache flag; `program` is what the model file holds at that time.
main(p, fname, name, program, cache_flag) ==
    /\ pc[p] \in Rest
    /\ runs[p] < MaxCalls
    /\ pc' = [pc EXCEPT ![p] = "read_data"]
    /\ runs' = [runs EXCEPT ![p] = @ + 1]
    /\ raw' = [raw EXCEPT ![p] = fname]
    /\ model' = [model EXCEPT ![p] = [name |-> name, modelfile |-> program]]
    /\ use_cache' = [use_cache EXCEPT ![p] = cache_flag]
    /\ data' = [data EXCEPT ![p] = <<>>]
    /\ team_map' = [team_map EXCEPT ![p] = EmptyMap]
    /\ stan_model' = [stan_model EXCEPT ![p] = NoModel]
    /\ last_load' = [last_load EXCEPT ![p] = "none"]
    /\ seen' = [seen EXCEPT ![p] = NoFile]
    /\ output' = [output EXCEPT ![p] = NoOutputs]
    /\ plotted' = [plotted EXCEPT ![p] = {}]
    /\ err' = [err EXCEPT ![p] = "none"]
    /\ stages' = [stages EXCEPT ![p] = <<>>]
    /\ calls' = [calls EXCEPT ![p] = NoCalls]
    /\ UNCHANGED <<encoder_vars, shared_vars>>

\* data, team_map = read_data(args.data)
ReadData(p) ==
    /\ pc[p] = "read_data"
    /\ LET r == read_data(raw[p])
       IN  IF r.raised # "none"
           THEN /\ Fail(p, r.raised)
                /\ UNCHANGED <<data, team_map, stages>>
           ELSE /\ data' = [data EXCEPT ![p] = r.data]
                /\ team_map' = [team_map EXCEPT ![p] = r.team_map]
                /\ StageDone(p, "normalize")
                /\ pc' = [pc EXCEPT ![p] = IF use_cache[p] THEN "load" ELSE "build"]
                /\ UNCHANGED err
    /\ UNCHANGED <<encoder_vars, shared_vars, runs, raw, model, use_cache, stan_model,
                   last_load, seen, output, plotted, calls>>

\* try: stan_model = joblib.load(cache_file), and the except clause's choice.
LoadBody(p) ==
    /\ pc[p] = "load"
    /\ LET path == cache_file(model[p])
           r == LoadOutcome(cache[path])
       IN  /\ last_load' = [last_load EXCEPT ![p] = r]
           /\ seen' = [seen EXCEPT ![p] = stored[model[p].name]]
           /\ IF r = "ok"
              THEN /\ stan_model' = [stan_model EXCEPT ![p] = cache[path]]
                   /\ pc' = [pc EXCEPT ![p] = "sample"]
                   /\ StageDone(p, "build")
                   /\ stats' = Bump(stats, model[p].name, "loads")
                   /\ UNCHANGED err
              ELSE IF Catches(r)
              THEN /\ pc' = [pc EXCEPT ![p] = "build_cached"]
                   /\ UNCHANGED <<stan_model, stages, stats, err>>
              ELSE /\ Fail(p, r)
                   /\ stats' = Bump(stats, model[p].name, "raised")
                   /\ UNCHANGED <<stan_model, stages>>
    /\ UNCHANGED <<encoder_vars, cache, stored, runs, raw, model, use_cache, data,
                   team_map, output, plotted, calls>>

\* Mutant of Load: the cache branch is a critical section; no load runs while
\* another process is between its failed load and the end of its dump.
Load_exclusive(p) ==
    /\ \A q \in Procs \ {p} :
          ~(/\ pc[q] \in {"build_cached", "dump", "dump_write"}
            /\ cache_file(model[q]) = cache_file(model[p]))
    /\ LoadBody(p)

Load(p) == LoadBody(p)

\* Mutant of BuildCached: the cache file is opened for writing before the
\* build, so a failed build leaves a file behind.
BuildCached_file_first(p) ==
    /\ pc[p] = "build_cached"
    /\ LET r == stan_build(model[p].modelfile, ModelData(data[p], team_map[p]))
       IN  IF r.raised # "none"
           THEN /\ Fail(p, r.raised)
                /\ stats' = Bump(stats, model[p].name, "raised")
                /\ cache' = [cache EXCEPT ![cache_file(model[p])] = Unreadable]
                /\ UNCHANGED <<stan_model, calls>>
           ELSE /\ stan_model' = [stan_model EXCEPT ![p] = r.stan_model]
                /\ calls' = Bump(calls, p, "compiles")
                /\ stats' = Bump(stats, model[p].name, "compiles")
                /\ pc' = [pc EXCEPT ![p] = "dump"]
                /\ UNCHANGED <<err, cache>>
    /\ UNCHANGED <<encoder_vars, stored, runs, raw, model, use_cache, data, team_map,
                   last_load, seen, output, plotted, stages>>

\* except FileNotFoundError: stan_model = stan.build(...)
BuildCached(p) ==
    /\ pc[p] = "build_cached"
    /\ LET r == stan_build(model[p].modelfile, ModelData(data[p], team_map[p]))
       IN  IF r.raised # "none"
           THEN /\ Fail(p, r.raised)
                /\ stats' = Bump(stats, model[p].name, "raised")
                /\ UNCHANGED <<stan_model, calls>>
           ELSE /\ stan_model' = [stan_model EXCEPT ![p] = r.stan_model]
                /\ calls' = Bump(calls, p, "compiles")
                /\ stats' = Bump(stats, model[p].name, "compiles")
                /\ pc' = [pc EXCEPT ![p] = "dump"]
                /\ UNCHANGED err
    /\ UNCHANGED <<encoder_vars, cache, stored, runs, raw, model, use_cache, data,
                   team_map, last_load, seen, output, plotted, stages>>

\* joblib.dump(stan_model, cache_file), first half: the file is opened for
\* writing and holds no complete pickle yet.
DumpOpen(p) ==
    /\ pc[p] = "dump"
    /\ cache' = [cache EXCEPT ![cache_file(model[p])] = Unreadable]
    /\ stored' = [stored EXCEPT ![model[p].name] = Unreadable]
    /\ pc' = [pc EXCEPT ![p] = "dump_write"]
    /\ UNCHANGED <<encoder_vars, stats, runs, raw, model, use_cache, data, team_map,
                   stan_model, last_load, seen, output, plotted, err, stages, calls>>

\* Mutant of DumpClose: the pickle ends up under another file name and
\* nothing stays at cache_file.
DumpClose_nothing_written(p) ==
    /\ pc[p] = "dump_write"
    /\ cache' = [cache EXCEPT ![cache_file(model[p])] = NoFile]
    /\ stored' = [stored EXCEPT ![model[p].name] = NoFile]
    /\ calls' = Bump(calls, p, "stores")
    /\ stats' = Bump(stats, model[p].name, "stores")
    /\ StageDone(p, "build")
    /\ pc' = [pc EXCEPT ![p] = "sample"]
    /\ UNCHANGED <<encoder_vars, runs, raw, model, use_cache, data, team_map,
                   stan_model, last_load, seen, output, plotted, err>>

\* joblib.dump, second half: the pickle is complete and the file closed.
DumpClose(p) ==
    /\ pc[p] = "dump_write"
    /\ cache' = [cache EXCEPT ![cache_file(model[p])] = stan_model[p]]
    /\ stored' = [stored EXCEPT ![model[p].name] = stan_model[p]]
    /\ calls' = Bump(calls, p, "stores")
    /\ stats' = Bump(stats, model[p].name, "stores")
    /\ StageDone(p, "build")
    /\ pc' = [pc EXCEPT ![p] = "sample"]
    /\ UNCHANGED <<encoder_vars, runs, raw, model, use_cache, data, team_map,
                   stan_model, last_load, seen, output, plotted, err>>

\* else: stan_model = stan.build(...)   (use_cache is false)
Build(p) ==
    /\ pc[p] = "build"
    /\ LET r == stan_build(model[p].modelfile, ModelData(data[p], team_map[p]))
       IN  IF r.raised # "none"
           THEN /\ Fail(p, r.raised)
                /\ UNCHANGED <<stan_model, calls, stages>>
           ELSE /\ stan_model' = [stan_model EXCEPT ![p] = r.stan_model]
                /\ calls' = Bump(calls, p, "compiles")
                /\ StageDone(p, "build")
                /\ pc' = [pc EXCEPT ![p] = "sample"]
                /\ UNCHANGED err
    /\ UNCHANGED <<encoder_vars, shared_vars, runs, raw, model, use_cache, data,
                   team_map, last_load, seen, output, plotted>>

\* Mutant of Sample: a failed sampling run is tried again.
Sample_retrying(p) ==
    /\ pc[p] = "sample"
    /\ calls' = Bump(calls, p, "samples")
    /\ \E ok \in BOOLEAN :
          IF ok
          THEN /\ output' = [output EXCEPT ![p] =
                                Extract(model[p].name, ModelData(data[p], team_map[p]))]
               /\ StageDone(p, "sample")
               /\ pc' = [pc EXCEPT ![p] = "tidy"]
               /\ UNCHANGED err
          ELSE UNCHANGED <<pc, err, output, stages>>
    /\ UNCHANGED <<encoder_vars, shared_vars, runs, raw, model, use_cache, data,
                   team_map, stan_model, last_load, seen, plotted>>

\* fit = stan_model.sample(data=model_data, **kwargs); output = fit.extract()
Sample(p) ==
    /\ pc[p] = "sample"
    /\ calls' = Bump(calls, p, "samples")
    /\ \E ok \in BOOLEAN :
          IF ok
          THEN /\ output' = [output EXCEPT ![p] =
                                Extract(model[p].name, ModelData(data[p], team_map[p]))]
               /\ StageDone(p, "sample")
               /\ pc' = [pc EXCEPT ![p] = "tidy"]
               /\ UNCHANGED err
          ELSE /\ Fail(p, "RuntimeError")
               /\ UNCHANGED <<output, stages>>
    /\ UNCHANGED <<encoder_vars, shared_vars, runs, raw, model, use_cache, data,
                   team_map, stan_model, last_load, seen, plotted>>

\* The tidy-up loop; fit_model returns the output.
Tidy(p) ==
    /\ pc[p] = "tidy"
    /\ LET r == TidyOutput(output[p], team_map[p], team_parameters(model[p].name))
       IN  IF r.raised # "none"
           THEN /\ Fail(p, r.raised)
                /\ UNCHANGED <<output, stages>>
           ELSE /\ output' = [output EXCEPT ![p] = r.output]
                /\ StageDone(p, "reindex")
                /\ pc' = [pc EXCEPT ![p] = "plot"]
                /\ UNCHANGED err
    /\ UNCHANGED <<encoder_vars, shared_vars, runs, raw, model, use_cache, data,
                   team_map, stan_model, last_load, seen, plotted, calls>>

\* plot_output(model, output): one figure per parameter and team parameter.
PlotOutput(p) ==
    /\ pc[p] = "plot"
    /\ plotted' = [plotted EXCEPT ![p] =
                      parameters(model[p].name) \cup team_parameters(model[p].name)]
    /\ StageDone(p, "report")
    /\ pc' = [pc EXCEPT ![p] = "done"]
    /\ UNCHANGED <<encoder_vars, shared_vars, runs, raw, model, use_cache, data,
                   team_map, stan_model, last_load, seen, output, err, calls>>

\* The storage layer damages a stored pickle while no invocation is running.
Damage(m) ==
    /\ \A p \in Procs : pc[p] \in Rest
    /\ cache[cache_file(m)].st = "ok"
    /\ cache' = [cache EXCEPT ![cache_file(m)] = Unreadable]
    /\ stored' = [stored EXCEPT ![m.name] =
                     IF @ = cache[cache_file(m)] THEN Unreadable ELSE @]
    /\ UNCHANGED <<encoder_vars, stats, pc, runs, raw, model, use_cache, data, team_map,
                   stan_model, last_load, seen, output, plotted, err, stages, calls>>

\* stan_map applied to a vector of labels.
Encode ==
    /\ ~mapped
    /\ vector_map' = stan_map(vector)
    /\ mapped' = TRUE
    /\ UNCHANGED <<vector, shared_vars, pc, runs, raw, model, use_cache, data, team_map,
                   stan_model, last_load, seen, output, plotted, err, stages, calls>>

\* ------------------------------------------------------- specifications
IdleProcs ==
    /\ pc = [p \in Procs |-> "idle"]
    /\ runs = [p \in Procs |-> 0]
    /\ raw = [p \in Procs |-> <<>>]
    /\ model = [p \in Procs |-> [name |-> "maher", modelfile |-> "T1"]]
    /\ use_cache = [p \in Procs |-> FALSE]
    /\ data = [p \in Procs |-> <<>>]
    /\ team_map = [p \in Procs |-> EmptyMap]
    /\ stan_model = [p \in Procs |-> NoModel]
    /\ last_load = [p \in Procs |-> "none"]
    /\ seen = [p \in Procs |-> NoFile]
    /\ output = [p \in Procs |-> NoOutputs]
    /\ plotted = [p \in Procs |-> {}]
    /\ err = [p \in Procs |-> "none"]
    /\ stages = [p \in Procs |-> <<>>]
    /\ calls = [p \in Procs |-> NoCalls]

ColdCache ==
    /\ cache = [path \in Paths |-> NoFile]
    /\ stored = [name \in ModelNames |-> NoFile]
    /\ stats = [name \in ModelNames |-> NoStats]

NoVector ==
    /\ vector = <<>>
    /\ vector_map = EmptyMap
    /\ mapped = TRUE

\* The script run again and again by one operator, against a cache directory
\* that starts empty.
Init == IdleProcs /\ ColdCache /\ NoVector

Next ==
    \/ \E fname \in PipelineTables, name \in ModelNames, program \in Templates,
          cache_flag \in BOOLEAN : main(1, fname, name, program, cache_flag)
    \/ ReadData(1)
    \/ Load(1)
    \/ BuildCached(1)
    \/ DumpOpen(1)
    \/ DumpClose(1)
    \/ Build(1)
    \/ Sample(1)
    \/ Tidy(1)
    \/ PlotOutput(1)
    \/ \E m \in Models : Damage(m)

Spec == Init /\ [][Next]_vars

\* Two operators running the script at the same time with --cache on the
\* same model.
NextConc ==
    \E p \in Procs :
        \/ \E program \in Templates : main(p, TableTwoTeams, "maher", program, TRUE)
        \/ ReadData(p)
        \/ Load(p)
        \/ BuildCached(p)
        \/ DumpOpen(p)
        \/ DumpClose(p)
        \/ Sample(p)
        \/ Tidy(p)
        \/ PlotOutput(p)

SpecConc == Init /\ [][NextConc]_vars

\* read_data on every table of at most MaxRows rows.
InitRead ==
    /\ ColdCache /\ NoVector
    /\ \E fname \in Tables, cache_flag \in BOOLEAN :
          /\ pc = [p \in Procs |-> IF p = 1 THEN "read_data" ELSE "idle"]
          /\ runs = [p \in Procs |-> IF p = 1 THEN 1 ELSE 0]
          /\ raw = [p \in Procs |-> IF p = 1 THEN fname ELSE <<>>]
          /\ use_cache = [p \in Procs |-> p = 1 /\ cache_flag]
    /\ model = [p \in Procs |-> [name |-> "maher", modelfile |-> "T1"]]
    /\ data = [p \in Procs |-> <<>>]
    /\ team_map = [p \in Procs |-> EmptyMap]
    /\ stan_model = [p \in Procs |-> NoModel]
    /\ last_load = [p \in Procs |-> "none"]
    /\ seen = [p \in Procs |-> NoFile]
    /\ output = [p \in Procs |-> NoOutputs]
    /\ plotted = [p \in Procs |-> {}]
    /\ err = [p \in Procs |-> "none"]
    /\ stages = [p \in Procs |-> <<>>]
    /\ calls = [p \in Procs |-> NoCalls]

SpecRead == InitRead /\ [][ReadData(1)]_vars

\* stan_map on every vector of at most MaxLen labels.
InitEncode ==
    /\ IdleProcs /\ ColdCache
    /\ vector \in SeqsUpTo(Labels, MaxLen)
    /\ vector_map = EmptyMap
    /\ mapped = FALSE

SpecEncode == InitEncode /\ [][Encode]_vars

\* --------------------------------------------------------------- claims
Returned(p) == pc[p] \in {"load", "build"}

PlayedRows(t) == {i \in 1..Len(t) : ~isnull(t[i].home_goals)}
KthPlayed(t, k) ==
    CHOOSE i \in PlayedRows(t) : Cardinality({j \in PlayedRows(t) : j <= i}) = k
LabelsOf(t, rows) == {t[i].home_team : i \in rows} \cup {t[i].away_team : i \in rows}

\* C1: against a cache that starts cold, the use_cache branch completes at
\* most one compile and one store per model name, whatever the number of
\* invocations; as soon as one invocation has come back from the branch there
\* has been exactly one compile and one store, and an invocation whose load
\* succeeds compiles and stores nothing.  (A compile that raises produces no
\* model and is not counted: that case is C2's.)
C1_CacheIdempotence ==
    /\ \A name \in ModelNames :
          /\ stats[name].compiles <= 1
          /\ stats[name].stores <= stats[name].compiles
          /\ stats[name].loads + stats[name].stores >= 1
                => stats[name].compiles = 1 /\ stats[name].stores = 1
    /\ \A p \in Procs :
          last_load[p] = "ok" => calls[p].compiles = 0 /\ calls[p].stores = 0

\* The third invocation on a name: one compile, one store, two loads.
C1_Witness ==
    \E name \in ModelNames :
        stats[name].loads >= 2 /\ stats[name].compiles = 1 /\ stats[name].stores = 1

\* C2: when the build in the use_cache branch raises, the invocation ends
\* with the compile error and nothing is at the cache location.
C2_FailedCompileNotCached ==
    \A p \in Procs :
        (use_cache[p] /\ err[p] = "CompileError")
            => /\ pc[p] = "failed"
               /\ last_load[p] = "FileNotFoundError"
               /\ cache[cache_file(model[p])] = NoFile
               /\ calls[p].stores = 0
               /\ stats[model[p].name].stores = 0

C2_Witness ==
    use_cache[1] /\ pc[1] = "failed" /\ err[1] = "CompileError" /\ runs[1] >= 2

C5_RecordsArePlayedRows ==
    Returned(1) =>
        /\ Len(data[1]) = Cardinality(PlayedRows(raw[1]))
        /\ \A k \in 1..Len(data[1]) :
              LET row == raw[1][KthPlayed(raw[1], k)]
                  rec == data[1][k]
              IN  /\ rec.home_team = row.home_team
                  /\ rec.away_team = row.away_team
                  /\ Num(rec.home_goals) = row.home_goals
                  /\ Num(rec.away_goals) = row.away_goals
                  /\ rec.home_team \in DOMAIN team_map[1]
                  /\ rec.away_team \in DOMAIN team_map[1]
                  /\ rec.home_team_id = [t |-> "id", v |-> team_map[1][rec.home_team]]
                  /\ rec.away_team_id = [t |-> "id", v |-> team_map[1][rec.away_team]]

\* An unplayed row ahead of a played one: the record is the second row.
C5_Witness ==
    /\ Returned(1)
    /\ Len(raw[1]) = 2
    /\ isnull(raw[1][1].home_goals)
    /\ Len(data[1]) = 1
    /\ data[1][1].home_team # data[1][1].away_team

\* C6: stan_map returns a map from the distinct labels of the vector onto
\* 1..N that numbers them in sorted order, and returns the same map for
\* every vector with the same distinct labels (any order, any repeats).
C6_EncoderBijection ==
    mapped =>
        /\ DOMAIN vector_map = Range(vector)
        /\ {vector_map[l] : l \in DOMAIN vector_map} = 1..Cardinality(Range(vector))
        /\ \A a, b \in DOMAIN vector_map : LexLess(a, b) => vector_map[a] < vector_map[b]
        /\ \A other \in SeqsUpTo(Labels, MaxLen) :
              Range(other) = Range(vector) => stan_map(other) = vector_map

\* A mapped vector that is out of order and repeats a label.
C6_Witness ==
    /\ mapped
    /\ Len(vector) > Cardinality(Range(vector))
    /\ Cardinality(Range(vector)) >= 2
    /\ \E i \in 1..(Len(vector) - 1) : LexLess(vector[i + 1], vector[i])

\* C7: after the tidy-up loop every team parameter is a table with one
\* column per team of the map, the column at 0-based position i labelled
\* with the team whose id is i+1 and holding the draws of that position; the
\* other parameters are what the sampler returned; the loop raises no
\* KeyError on the sampler's output.
C7_ColumnsAreTeams ==
    \A p \in Procs :
        /\ err[p] # "KeyError"
        /\ pc[p] \in {"plot", "done"} =>
              LET before == Extract(model[p].name, ModelData(data[p], team_map[p]))
              IN  \A param \in AllParams :
                     IF param \in team_parameters(model[p].name)
                     THEN /\ output[p][param].kind = "DataFrame"
                          /\ output[p][param].values = before[param].values
                          /\ Len(output[p][param].columns) = Cardinality(DOMAIN team_map[p])
                          /\ \A i \in 1..Len(output[p][param].columns) :
                                /\ output[p][param].columns[i] \in DOMAIN team_map[p]
                                /\ team_map[p][output[p][param].columns[i]] = i
                     ELSE output[p][param] = before[param]

C7_Witness ==
    /\ pc[1] = "plot"
    /\ Cardinality(DOMAIN team_map[1]) = 3
    /\ output[1]["attack"].columns = <<<<1>>, <<1, 2>>, <<2>>>>

\* C8: once a model has been stored under a name, a later invocation with
\* use_cache and that name comes out of the build with the stored model and
\* has compiled nothing, whatever the model file holds by then.
C8_StaleReuse ==
    \A p \in Procs :
        (use_cache[p] /\ Len(stages[p]) >= 2 /\ seen[p].st = "ok")
            => /\ stan_model[p] = seen[p]
               /\ last_load[p] = "ok"
               /\ calls[p].compiles = 0

\* The stored model was compiled from another program than the model file's.
C8_Witness ==
    /\ use_cache[1] /\ Len(stages[1]) >= 2 /\ seen[1].st = "ok"
    /\ stan_model[1].code # model[1].modelfile
    /\ model[1].modelfile # "Tbad"

Progress(at) ==
    IF at \in {"idle", "read_data"} THEN 0
    ELSE IF at \in {"load", "build", "build_cached", "dump", "dump_write"} THEN 1
    ELSE IF at = "sample" THEN 2
    ELSE IF at = "tidy" THEN 3
    ELSE IF at = "plot" THEN 4
    ELSE 5

FailedAfter(exc) ==
    IF exc = "ValueError" THEN 0
    ELSE IF exc \in {"EOFError", "CompileError"} THEN 1
    ELSE IF exc = "RuntimeError" THEN 2
    ELSE 3

\* C9: the stages complete in the order normalize, build, sample, reindex,
\* report, one after the other; an invocation that raised has completed
\* only the stages before the one that raised, has saved no figure and has
\* called the sampler at most once.
C9_FailFast ==
    \A p \in Procs :
        /\ stages[p] = SubSeq(StageOrder, 1, Len(stages[p]))
        /\ calls[p].samples <= 1
        /\ pc[p] # "failed" => /\ err[p] = "none"
                               /\ Len(stages[p]) = Progress(pc[p])
        /\ pc[p] = "failed" => /\ err[p] # "none"
                               /\ Len(stages[p]) = FailedAfter(err[p])
                               /\ plotted[p] = {}
                               /\ calls[p].samples = (IF err[p] \in {"RuntimeError", "KeyError"} THEN 1 ELSE 0)
        /\ plotted[p] # {} => pc[p] = "done"

C9_Witness ==
    /\ pc[1] = "failed" /\ err[1] = "RuntimeError"
    /\ stages[1] = <<"normalize", "build">>
    /\ calls[1].samples = 1

\* C10: nothing keeps the processes apart in the use_cache branch: a process
\* about to load, build or dump can always take that step, wherever the
\* other process is.
C10_NoExclusion ==
    \A p \in Procs :
        /\ pc[p] = "load" => ENABLED Load(p)
        /\ pc[p] = "build_cached" => ENABLED BuildCached(p)
        /\ pc[p] = "dump" => ENABLED DumpOpen(p)
        /\ pc[p] = "dump_write" => ENABLED DumpClose(p)

\* Both processes found no file and compiled the same model; one has stored
\* it, and its next load ran while the other's dump was half written.
C10_Witness ==
    /\ stats["maher"].compiles >= 2
    /\ stats["maher"].stores >= 1
    /\ \E p, q \in Procs :
          /\ p # q
          /\ last_load[p] = "EOFError"
          /\ pc[q] = "dump_write"
          /\ calls[q].compiles = 1
          /\ last_load[q] = "FileNotFoundError"

====
